---- MODULE Spec2Model ----
(***************************************************************************)
(* The Universe of src/src/lib.rs: a toroidal Game of Life grid kept in a  *)
(* FixedBitSet, with its operations new, tick, draw, clear, reset,         *)
(* set_cells, render and the accessors.                                    *)
(*                                                                         *)
(* The four fields of the struct are the variables width, height, size and *)
(* cells.  cells is a function from 0..size-1 to BOOLEAN (bit i of the     *)
(* bit set).  status is "ok" until a call panics; a panic in the wasm      *)
(* build aborts the call and leaves the exclusive borrow of the Universe   *)
(* taken, so no later call runs.                                           *)
(*                                                                         *)
(* op, args, pre and ret record the last call: its name, its arguments,    *)
(* the fields before it and what it returned.  seed and gen belong to the  *)
(* pattern scenarios (a still life, a glider): the seeded buffer and the   *)
(* number of tick() calls since.                                           *)
(***************************************************************************)
EXTENDS Integers, Sequences, FiniteSets, TLC

VARIABLES width, height, size, cells, status, op, args, pre, ret, seed, gen,
          tick_next, visited

vars == <<width, height, size, cells, status, op, args, pre, ret, seed, gen,
         tick_next, visited>>

(***************************************************************************)
(* Bounds of the model.                                                    *)
(***************************************************************************)
\* new() builds a WIDTH x HEIGHT grid (lines 115-116); where the cells are
\* drawn freely the model builds NewWidth x NewHeight.
WIDTH == 64
HEIGHT == 64
NewWidth == 2
NewHeight == 2
\* Grids whose dimensions are drawn freely have 1..MaxWidth columns,
\* 1..MaxHeight rows and at most MaxCells cells.
MaxWidth == 4
MaxHeight == 4
MaxCells == 12
\* The grid of the draw() checks is DrawDim x DrawDim; a list given to
\* draw() has at most MaxDraw pairs.
DrawDim == 2
MaxDraw == 2
\* The still life is seeded on grids of 4..BlockMaxDim rows and columns, the
\* glider on grids of 6..GliderMaxDim; a scenario ticks at most MaxTicks times.
BlockMaxDim == 5
GliderMaxDim == 6
MaxTicks == 4
\* An empty Universe has one dimension 0 and the other in 0..ZeroMaxDim.
ZeroMaxDim == 6
\* The sequences of Math.random() given to the 64 x 64 Universe have a period
\* of at most MaxPeriod.
MaxPeriod == 10
\* A tick taken step by step runs on a grid of at most StepMaxDim rows and
\* columns and at most StepCells cells.
StepMaxDim == 4
StepCells == 7
\* get_index is taken on grids of 1..IndexMaxDim rows and columns.
IndexMaxDim == 8
\* u32 arithmetic is modulo 2^32; the model's word is modulo U32 (the model
\* checker's integers end below 2^32).
U32 == 1024

(***************************************************************************)
(* Program constants.                                                      *)
(***************************************************************************)
DEAD_CELL == FALSE
ALIVE_CELL == TRUE
\* The bits of one block of the bit set: usize on the wasm32 target.
BITS == 32
\* Math.random() < 0.2, in hundredths.
Threshold == 20
\* The values Math.random() returns, in hundredths: one below the threshold
\* and the threshold itself.
RandomValues == {19, 20}
DEAD_GLYPH == "◻"
ALIVE_GLYPH == "◼"

Min(a, b) == IF a < b THEN a ELSE b

(***************************************************************************)
(* FixedBitSet.                                                            *)
(***************************************************************************)
\* self.cells[idx]: a read beyond the length yields false.
Contains(cs, idx) == idx \in DOMAIN cs /\ cs[idx]

\* `x as u8` of a bool.
Bit(b) == IF b THEN 1 ELSE 0

\* as_slice(): the blocks of the bit set, each block given by the set of
\* its bits that are set (the block is the number 0 iff that set is empty).
as_slice(cs) ==
    LET n  == Cardinality(DOMAIN cs)
        nb == (n + BITS - 1) \div BITS
    IN  [k \in 0..(nb - 1) |->
            {j \in 0..(BITS - 1) : Contains(cs, k * BITS + j)}]

(***************************************************************************)
(* Free functions.                                                         *)
(***************************************************************************)
\* A variant of toggle that sets the cell.
toggle_sets(cell) == ALIVE_CELL

toggle(cell) == IF cell = DEAD_CELL THEN ALIVE_CELL ELSE DEAD_CELL

\* A variant of seed_cells whose comparison with the threshold is <=.
seed_cells_le(n, rnd) ==
    [i \in 0..(n - 1) |->
        IF rnd[i + 1] <= Threshold THEN ALIVE_CELL ELSE DEAD_CELL]

\* rnd[i + 1] is the value the i-th call of Math.random() returns.
seed_cells(n, rnd) ==
    [i \in 0..(n - 1) |->
        IF rnd[i + 1] < Threshold THEN ALIVE_CELL ELSE DEAD_CELL]

(***************************************************************************)
(* Universe: private helpers.                                              *)
(***************************************************************************)
\* A variant of get_index with row and column exchanged.
get_index_swapped(w, row, column) == (column * w + row) % U32

\* row * width + column in u32: the wrapped value, and whether it wrapped.
get_index(w, row, column) == (row * w + column) % U32

get_index_overflows(w, row, column) == row * w + column >= U32

\* Variants of the delta arrays with the dimension in place of dimension - 1.
delta_rows_full(h) == <<h, 0, 1>>

delta_cols_full(w) == <<w, 0, 1>>

\* The two delta arrays of live_neighbour_count.
delta_rows(h) == <<h - 1, 0, 1>>

delta_cols(w) == <<w - 1, 0, 1>>

\* Whether one of the sums row + delta_row, column + delta_col of
\* live_neighbour_count wraps in u32.
neighbour_sums_overflow(w, h, row, column) ==
    \E k \in 1..3 : \/ row + delta_rows(h)[k] >= U32
                     \/ column + delta_cols(w)[k] >= U32

\* The nested loop of live_neighbour_count from its k-th iteration on
\* (k = 0..8, delta_row outer, delta_col inner).
RECURSIVE count_from(_, _, _, _, _, _)
count_from(w, h, cs, row, column, k) ==
    IF k >= 9 THEN 0
    ELSE LET delta_row == delta_rows(h)[(k \div 3) + 1]
             delta_col == delta_cols(w)[(k % 3) + 1]
             neighbour_row == ((row + delta_row) % U32) % h
             neighbour_col == ((column + delta_col) % U32) % w
             idx == get_index(w, neighbour_row, neighbour_col)
             here == IF delta_row = 0 /\ delta_col = 0
                     THEN 0
                     ELSE Bit(Contains(cs, idx))
         IN  here + count_from(w, h, cs, row, column, k + 1)

live_neighbour_count(w, h, cs, row, column) ==
    count_from(w, h, cs, row, column, 0)

\* A variant of the match in which an Alive cell survives on 2 only.
next_cell_two_only(cell, live_neighbours) ==
    IF cell = ALIVE_CELL THEN live_neighbours = 2 ELSE live_neighbours = 3

\* The match of tick.
next_cell(cell, live_neighbours) ==
    IF cell = ALIVE_CELL /\ live_neighbours < 2 THEN DEAD_CELL
    ELSE IF cell = ALIVE_CELL /\ live_neighbours \in {2, 3} THEN ALIVE_CELL
    ELSE IF cell = ALIVE_CELL /\ live_neighbours > 3 THEN DEAD_CELL
    ELSE IF cell = DEAD_CELL /\ live_neighbours = 3 THEN ALIVE_CELL
    ELSE cell

\* A variant of the body of the loops of tick that reads the buffer it
\* writes.
tick_cell_reads_next(w, h, cs, next, k) ==
    LET row == k \div w
        col == k % w
        idx == get_index(w, row, col)
        cell == Contains(next, idx)
        live_neighbours == live_neighbour_count(w, h, next, row, col)
    IN  [next EXCEPT ![idx] = next_cell(cell, live_neighbours)]

\* The body of the loops of tick for cell k = (k div w, k mod w): reads cs
\* (self.cells), writes next.
tick_cell(w, h, cs, next, k) ==
    LET row == k \div w
        col == k % w
        idx == get_index(w, row, col)
        cell == Contains(cs, idx)
        live_neighbours == live_neighbour_count(w, h, cs, row, col)
    IN  [next EXCEPT ![idx] = next_cell(cell, live_neighbours)]

\* The loops of tick from cell k on, in row-major order: reads cs
\* (self.cells), writes next.
RECURSIVE tick_from(_, _, _, _, _)
tick_from(w, h, cs, next, k) ==
    IF k >= w * h THEN next
    ELSE tick_from(w, h, cs, tick_cell(w, h, cs, next, k), k + 1)

\* A variant of tick that reads the buffer it writes.
RECURSIVE tick_from_in_place(_, _, _, _)
tick_from_in_place(w, h, next, k) ==
    IF k >= w * h THEN next
    ELSE LET row == k \div w
             col == k % w
             idx == get_index(w, row, col)
             cell == Contains(next, idx)
             live_neighbours == live_neighbour_count(w, h, next, row, col)
         IN  tick_from_in_place(w, h,
                 [next EXCEPT ![idx] = next_cell(cell, live_neighbours)],
                 k + 1)

tick_in_place(w, h, cs) == tick_from_in_place(w, h, cs, 0)

\* tick: next starts as a clone of self.cells and replaces it at the end.
tick(w, h, cs) == tick_from(w, h, cs, cs, 0)

Ok(cs) == [cells |-> cs, status |-> "ok"]

Panic(cs) == [cells |-> cs, status |-> "panic"]

\* Universe::toggle.  With overflow checks (a debug build) an overflowing
\* index panics, without them it wraps; FixedBitSet::set panics on an index
\* beyond the length.
Universe_toggle(w, cs, row, col, checked) ==
    IF checked /\ get_index_overflows(w, row, col) THEN Panic(cs)
    ELSE LET idx == get_index(w, row, col)
         IN  IF idx \notin DOMAIN cs THEN Panic(cs)
             ELSE Ok([cs EXCEPT ![idx] = toggle(Contains(cs, idx))])

\* The loop of draw from the k-th element of map on; p[0] or p[1] of a
\* shorter element panics.
RECURSIVE draw_from(_, _, _, _, _)
draw_from(w, cs, map, k, checked) ==
    IF k > Len(map) THEN Ok(cs)
    ELSE LET p == map[k]
         IN  IF Len(p) < 2 THEN Panic(cs)
             ELSE LET r == Universe_toggle(w, cs, p[1], p[2], checked)
                  IN  IF r.status = "panic" THEN r
                      ELSE draw_from(w, r.cells, map, k + 1, checked)

\* The loop of set_cells from the k-th coordinate on.
RECURSIVE set_cells_from(_, _, _, _, _)
set_cells_from(w, cs, coords, k, checked) ==
    IF k > Len(coords) THEN Ok(cs)
    ELSE LET row == coords[k][1]
             col == coords[k][2]
             idx == get_index(w, row, col)
         IN  IF checked /\ get_index_overflows(w, row, col) THEN Panic(cs)
             ELSE IF idx \notin DOMAIN cs THEN Panic(cs)
             ELSE set_cells_from(w, [cs EXCEPT ![idx] = ALIVE_CELL],
                                 coords, k + 1, checked)

\* A variant of set_cells that starts from an all-Dead buffer.
set_cells_cleared(w, cs, coords, checked) ==
    set_cells_from(w, [i \in DOMAIN cs |-> DEAD_CELL], coords, 1, checked)

\* set_cells: the loop from the first coordinate.
set_cells(w, cs, coords, checked) == set_cells_from(w, cs, coords, 1, checked)

\* Variants of clear: one bit short, and filled with ALIVE_CELL.
clear_one_short(n) == [i \in 0..(n - 2) |-> DEAD_CELL]

clear_alive(n) == [i \in 0..(n - 1) |-> ALIVE_CELL]

\* clear: a fresh bit set of self.size bits, each set to DEAD_CELL.
clear(n) == [i \in 0..(n - 1) |-> DEAD_CELL]

\* slice::chunks(chunk_size) panics on a chunk size of 0, whatever the slice.
chunks_panics(w) == w = 0

\* Display::fmt: the blocks of the bit set in chunks of width blocks, one
\* glyph per block and a newline per chunk.  The string is the sequence of
\* its characters.
RECURSIVE fmt_from(_, _, _)
fmt_from(w, blocks, start) ==
    LET nb == Cardinality(DOMAIN blocks)
    IN  IF start >= nb THEN <<>>
        ELSE LET stop == Min(start + w, nb)
                 line == [c \in 1..(stop - start) |->
                            IF blocks[start + c - 1] = {}
                            THEN DEAD_GLYPH ELSE ALIVE_GLYPH]
             IN  line \o <<"\n">> \o fmt_from(w, blocks, stop)

fmt(w, cs) == fmt_from(w, as_slice(cs), 0)

(***************************************************************************)
(* The calls.                                                              *)
(***************************************************************************)
Snapshot == [width |-> width, height |-> height, size |-> size, cells |-> cells]

\* Universe::new with the values rnd of Math.random(), for a build whose
\* two literals are w and h.
NewAt(w, h, rnd) ==
    /\ width = w
    /\ height = h
    /\ size = w * h
    /\ cells = seed_cells(size, rnd)
    /\ status = "ok"
    /\ op = "new"
    /\ args = rnd
    /\ pre = <<>>
    /\ ret = <<>>

\* Universe::new on the scaled grid of Spec.
New(rnd) == NewAt(NewWidth, NewHeight, rnd)

\* tick() on the fields.
TickCall ==
    /\ status = "ok"
    /\ cells' = tick(width, height, cells)
    /\ op' = "tick"
    /\ args' = <<>>
    /\ pre' = Snapshot
    /\ ret' = <<>>
    /\ UNCHANGED <<width, height, size, status>>

Tick == TickCall /\ UNCHANGED <<seed, gen, tick_next, visited>>

\* tick() step by step.  TickBegin clones self.cells into next; TickVisit(k)
\* is one pass of the loop body, for cell k; TickCommit is the assignment
\* self.cells = next.  The code visits the cells in increasing k; TickVisit
\* takes any cell not visited yet, of which the code's order is one choice.
\* No other call runs while status is "ticking" (tick holds &mut self).
TickBegin ==
    /\ status = "ok"
    /\ status' = "ticking"
    /\ tick_next' = cells
    /\ visited' = {}
    /\ op' = "tick"
    /\ args' = <<>>
    /\ pre' = Snapshot
    /\ ret' = <<>>
    /\ UNCHANGED <<width, height, size, cells, seed, gen>>

TickVisit(k) ==
    /\ status = "ticking"
    /\ k \in 0..(width * height - 1)
    /\ k \notin visited
    /\ tick_next' = tick_cell(width, height, cells, tick_next, k)
    /\ visited' = visited \cup {k}
    /\ UNCHANGED <<width, height, size, cells, status, op, args, pre, ret,
                   seed, gen>>

TickCommit ==
    /\ status = "ticking"
    /\ visited = 0..(width * height - 1)
    /\ cells' = tick_next
    /\ tick_next' = <<>>
    /\ visited' = {}
    /\ status' = "ok"
    /\ UNCHANGED <<width, height, size, op, args, pre, ret, seed, gen>>

\* tick() in a pattern scenario, counted.
ScenarioTick ==
    /\ gen < MaxTicks
    /\ TickCall
    /\ gen' = gen + 1
    /\ UNCHANGED <<seed, tick_next, visited>>

\* draw with a value that decodes to the list map.
Draw(map) ==
    /\ status = "ok"
    /\ \E checked \in BOOLEAN :
         LET r == draw_from(width, cells, map, 1, checked)
         IN  cells' = r.cells /\ status' = r.status
    /\ op' = "draw"
    /\ args' = map
    /\ pre' = Snapshot
    /\ ret' = <<>>
    /\ UNCHANGED <<width, height, size, seed, gen, tick_next, visited>>

\* draw with a value that does not decode to Vec<Vec<u32>>: unwrap panics.
DrawUndecodable ==
    /\ status = "ok"
    /\ status' = "panic"
    /\ op' = "draw"
    /\ args' = <<>>
    /\ pre' = Snapshot
    /\ ret' = <<>>
    /\ UNCHANGED <<width, height, size, cells, seed, gen, tick_next, visited>>

Clear ==
    /\ status = "ok"
    /\ cells' = clear(size)
    /\ op' = "clear"
    /\ args' = <<>>
    /\ pre' = Snapshot
    /\ ret' = <<>>
    /\ UNCHANGED <<width, height, size, status, seed, gen, tick_next, visited>>

\* reset with the values rnd of Math.random().  It does not read the
\* buffer: the snapshot keeps the dimensions only.
Reset(rnd) ==
    /\ status = "ok"
    /\ cells' = seed_cells(size, rnd)
    /\ op' = "reset"
    /\ args' = rnd
    /\ pre' = [Snapshot EXCEPT !.cells = <<>>]
    /\ ret' = <<>>
    /\ UNCHANGED <<width, height, size, status, seed, gen, tick_next, visited>>

SetCells(coords) ==
    /\ status = "ok"
    /\ \E checked \in BOOLEAN :
         LET r == set_cells(width, cells, coords, checked)
         IN  cells' = r.cells /\ status' = r.status
    /\ op' = "set_cells"
    /\ args' = coords
    /\ pre' = Snapshot
    /\ ret' = <<>>
    /\ UNCHANGED <<width, height, size, seed, gen, tick_next, visited>>

\* render: to_string() of the Display impl; chunks(0) panics.
Render ==
    /\ status = "ok"
    /\ op' = "render"
    /\ args' = <<>>
    /\ pre' = Snapshot
    /\ IF chunks_panics(width)
       THEN status' = "panic" /\ ret' = <<>>
       ELSE status' = "ok" /\ ret' = fmt(width, cells)
    /\ UNCHANGED <<width, height, size, cells, seed, gen, tick_next, visited>>

Width ==
    /\ status = "ok"
    /\ op' = "width"
    /\ args' = <<>>
    /\ pre' = Snapshot
    /\ ret' = width
    /\ UNCHANGED <<width, height, size, cells, status, seed, gen,
                   tick_next, visited>>

Height ==
    /\ status = "ok"
    /\ op' = "height"
    /\ args' = <<>>
    /\ pre' = Snapshot
    /\ ret' = height
    /\ UNCHANGED <<width, height, size, cells, status, seed, gen,
                   tick_next, visited>>

\* A variant of get_cells that moves the buffer out of the Universe.
GetCellsTakes ==
    /\ status = "ok"
    /\ op' = "get_cells"
    /\ args' = <<>>
    /\ pre' = Snapshot
    /\ ret' = cells
    /\ cells' = <<>>
    /\ UNCHANGED <<width, height, size, status, seed, gen, tick_next, visited>>

\* get_cells: a copy of the buffer.
GetCells ==
    /\ status = "ok"
    /\ op' = "get_cells"
    /\ args' = <<>>
    /\ pre' = Snapshot
    /\ ret' = cells
    /\ UNCHANGED <<width, height, size, cells, status, seed, gen,
                   tick_next, visited>>

\* live_neighbour_count(row, col) on the fields (a private helper, called
\* here directly).
LiveNeighbourCount(row, col) ==
    /\ status = "ok"
    /\ op' = "live_neighbour_count"
    /\ args' = <<row, col>>
    /\ pre' = Snapshot
    /\ ret' = live_neighbour_count(width, height, cells, row, col)
    /\ UNCHANGED <<width, height, size, cells, status, seed, gen,
                   tick_next, visited>>

\* get_index (private) at a cell of the grid.
GetIndex(row, col) ==
    /\ status = "ok"
    /\ op' = "get_index"
    /\ args' = <<row, col>>
    /\ pre' = Snapshot
    /\ ret' = get_index(width, row, col)
    /\ UNCHANGED <<width, height, size, cells, status, seed, gen,
                   tick_next, visited>>

\* set_width and set_height are commented out (lines 137-145): the impl
\* block defines no such method, and a call of one does not reach the
\* Universe.
SetWidth(new_width) ==
    /\ status = "ok"
    /\ op' = "set_width"
    /\ args' = <<new_width>>
    /\ pre' = Snapshot
    /\ ret' = "undefined method"
    /\ UNCHANGED <<width, height, size, cells, status, seed, gen,
                   tick_next, visited>>

SetHeight(new_height) ==
    /\ status = "ok"
    /\ op' = "set_height"
    /\ args' = <<new_height>>
    /\ pre' = Snapshot
    /\ ret' = "undefined method"
    /\ UNCHANGED <<width, height, size, cells, status, seed, gen,
                   tick_next, visited>>

(***************************************************************************)
(* Inputs.                                                                 *)
(***************************************************************************)
\* The coordinates of a w x h grid.
InRange(w, h) == {<<row, col>> : row \in 0..(h - 1), col \in 0..(w - 1)}

\* Pairs outside it: a row too far, a column too far, and a row whose index
\* leaves the word.
OutOfRange(w, h) == {<<h, 0>>, <<0, w>>, <<(U32 + w - 1) \div w, 0>>}

\* Elements of the wrong arity.
WrongArity == {<<0>>, <<0, 0, 0>>}

Seqs(S, n) == UNION {[1..m -> S] : m \in 0..n}

(***************************************************************************)
(* Spec: the Universe from new(), under every call.                        *)
(***************************************************************************)
Init ==
    /\ \E rnd \in [1..(NewWidth * NewHeight) -> RandomValues] : New(rnd)
    /\ seed = <<>>
    /\ gen = 0
    /\ tick_next = <<>>
    /\ visited = {}

\* draw and set_cells are called with the empty list and with every list
\* of one element; longer lists are sequences of such calls.
Next ==
    \/ Tick
    \/ \E p \in InRange(width, height) \cup OutOfRange(width, height)
                  \cup WrongArity : Draw(<<p>>)
    \/ Draw(<<>>)
    \/ DrawUndecodable
    \/ Clear
    \/ \E rnd \in [1..size -> RandomValues] : Reset(rnd)
    \/ \E p \in InRange(width, height) \cup OutOfRange(width, height) :
           SetCells(<<p>>)
    \/ SetCells(<<>>)
    \/ Render
    \/ Width
    \/ Height
    \/ GetCells

Spec == Init /\ [][Next]_vars

(***************************************************************************)
(* SpecGrid: one call on any grid of 1..MaxWidth columns, 1..MaxHeight     *)
(* rows and at most MaxCells cells, whatever its cells.                    *)
(***************************************************************************)
\* A Universe of w x h cells cs, not yet called.
Given(w, h, cs) ==
    /\ width = w
    /\ height = h
    /\ size = w * h
    /\ cells = cs
    /\ status = "ok"
    /\ op = "init"
    /\ args = <<>>
    /\ pre = <<>>
    /\ ret = <<>>

InitGrid ==
    /\ \E w \in 1..MaxWidth, h \in 1..MaxHeight :
         /\ w * h <= MaxCells
         /\ \E cs \in [0..(w * h - 1) -> BOOLEAN] : Given(w, h, cs)
    /\ seed = <<>>
    /\ gen = 0
    /\ tick_next = <<>>
    /\ visited = {}

NextGrid ==
    \/ op = "init" /\ Tick
    \/ op = "init" /\ \E p \in InRange(width, height) :
                         LiveNeighbourCount(p[1], p[2])
    \/ op = "init" /\ Render
    \/ op = "init" /\ \E n \in 1..MaxWidth : SetWidth(n)
    \/ op = "init" /\ \E n \in 1..MaxHeight : SetHeight(n)

SpecGrid == InitGrid /\ [][NextGrid]_vars

(***************************************************************************)
(* SpecDraw: one draw() on a DrawDim x DrawDim grid, whatever its cells,   *)
(* with every list of at most MaxDraw elements.                            *)
(***************************************************************************)
InitDraw ==
    /\ \E cs \in [0..(DrawDim * DrawDim - 1) -> BOOLEAN] :
         Given(DrawDim, DrawDim, cs)
    /\ seed = <<>>
    /\ gen = 0
    /\ tick_next = <<>>
    /\ visited = {}

DrawItems == InRange(DrawDim, DrawDim) \cup OutOfRange(DrawDim, DrawDim)
                 \cup WrongArity

NextDraw ==
    \/ op = "init" /\ \E map \in Seqs(DrawItems, MaxDraw) : Draw(map)
    \/ op = "init" /\ DrawUndecodable

SpecDraw == InitDraw /\ [][NextDraw]_vars

(***************************************************************************)
(* SpecNew: new() with the literals of the source, WIDTH x HEIGHT, and one *)
(* reset().  The values of Math.random() are the periodic sequences of     *)
(* period at most MaxPeriod with one value below the threshold per period. *)
(***************************************************************************)
Periodic(n, p, q) ==
    [i \in 1..n |-> IF (i - 1) % p = q THEN Threshold - 1 ELSE Threshold]

Streams(n) ==
    UNION {{Periodic(n, p, q) : q \in 0..(p - 1)} : p \in 1..MaxPeriod}

InitNew ==
    /\ \E rnd \in Streams(WIDTH * HEIGHT) : NewAt(WIDTH, HEIGHT, rnd)
    /\ seed = <<>>
    /\ gen = 0
    /\ tick_next = <<>>
    /\ visited = {}

NextNew == op = "new" /\ \E rnd \in Streams(size) : Reset(rnd)

SpecNew == InitNew /\ [][NextNew]_vars

(***************************************************************************)
(* SpecTickSteps: one tick(), step by step, on a grid of 1..StepMaxDim     *)
(* rows and columns and at most StepCells cells, whatever its cells.       *)
(***************************************************************************)
InitTickSteps ==
    /\ \E w \in 1..StepMaxDim, h \in 1..StepMaxDim :
         /\ w * h <= StepCells
         /\ \E cs \in [0..(w * h - 1) -> BOOLEAN] : Given(w, h, cs)
    /\ seed = <<>>
    /\ gen = 0
    /\ tick_next = <<>>
    /\ visited = {}

NextTickSteps ==
    \/ op = "init" /\ TickBegin
    \/ \E k \in 0..(width * height - 1) : TickVisit(k)
    \/ TickCommit

SpecTickSteps == InitTickSteps /\ [][NextTickSteps]_vars

(***************************************************************************)
(* SpecIndex: one get_index() on a cleared grid of 1..IndexMaxDim rows and *)
(* columns.                                                                *)
(***************************************************************************)
InitIndex ==
    /\ \E w \in 1..IndexMaxDim, h \in 1..IndexMaxDim :
         Given(w, h, clear(w * h))
    /\ seed = <<>>
    /\ gen = 0
    /\ tick_next = <<>>
    /\ visited = {}

NextIndex ==
    op = "init" /\ \E p \in InRange(width, height) : GetIndex(p[1], p[2])

SpecIndex == InitIndex /\ [][NextIndex]_vars

(***************************************************************************)
(* SpecSetCells: one set_cells() on a DrawDim x DrawDim grid, whatever its *)
(* cells, with every list of at most MaxDraw pairs.                        *)
(***************************************************************************)
NextSetCells ==
    op = "init" /\ \E coords \in Seqs(InRange(DrawDim, DrawDim)
                                       \cup OutOfRange(DrawDim, DrawDim),
                                   MaxDraw) : SetCells(coords)

SpecSetCells == InitDraw /\ [][NextSetCells]_vars

(***************************************************************************)
(* SpecBlock, SpecGlider: a pattern seeded on an all-Dead grid, then       *)
(* ticked.                                                                 *)
(***************************************************************************)
\* The buffer of a w x h grid whose Alive cells are those of shape (a set of
\* <<row, col>> offsets) moved to (r, c), wrapping at the edges.
Pattern(w, h, shape, r, c) ==
    [i \in 0..(w * h - 1) |->
        \E d \in shape : i = ((r + d[1]) % h) * w + ((c + d[2]) % w)]

Seeded(w, h, cs) ==
    /\ Given(w, h, cs)
    /\ seed = cs
    /\ gen = 0
    /\ tick_next = <<>>
    /\ visited = {}

BlockShape == {<<0, 0>>, <<0, 1>>, <<1, 0>>, <<1, 1>>}

\* The glider that travels toward increasing row and column.
GliderShape == {<<0, 1>>, <<1, 2>>, <<2, 0>>, <<2, 1>>, <<2, 2>>}

InitBlock ==
    \E w \in 4..BlockMaxDim, h \in 4..BlockMaxDim :
        \E r \in 0..(h - 1), c \in 0..(w - 1) :
            Seeded(w, h, Pattern(w, h, BlockShape, r, c))

InitGlider ==
    \E w \in 6..GliderMaxDim, h \in 6..GliderMaxDim :
        \E r \in 0..(h - 1), c \in 0..(w - 1) :
            Seeded(w, h, Pattern(w, h, GliderShape, r, c))

NextScenario == ScenarioTick

SpecBlock == InitBlock /\ [][NextScenario]_vars

SpecGlider == InitGlider /\ [][NextScenario]_vars

(***************************************************************************)
(* SpecZero: the calls on an empty Universe, one with width 0 or height 0  *)
(* and the other dimension in 0..ZeroMaxDim.                               *)
(***************************************************************************)
InitZero ==
    /\ \E w \in 0..ZeroMaxDim, h \in 0..ZeroMaxDim :
         /\ w = 0 \/ h = 0
         /\ Given(w, h, <<>>)
    /\ seed = <<>>
    /\ gen = 0
    /\ tick_next = <<>>
    /\ visited = {}

NextZero ==
    \/ Tick
    \/ Render
    \/ Clear
    \/ Reset(<<>>)
    \/ Draw(<<>>)
    \/ Draw(<<<<0, 0>>>>)
    \/ SetCells(<<>>)
    \/ SetCells(<<<<0, 0>>>>)
    \/ Width
    \/ Height
    \/ GetCells

SpecZero == InitZero /\ [][NextZero]_vars

(***************************************************************************)
(* Properties.                                                             *)
(***************************************************************************)
AllDead(cs) == \A i \in DOMAIN cs : cs[i] = DEAD_CELL

Alive(cs) == {i \in DOMAIN cs : cs[i] = ALIVE_CELL}

\* C1: after tick() every cell is the Conway rule of its pre-tick state and
\* its pre-tick live_neighbour_count: Alive with 2 or 3 stays Alive, Dead
\* with 3 becomes Alive, every other cell is Dead.  (SpecGrid)
TickIsConwayRule ==
    op = "tick" =>
        \A row \in 0..(height - 1), col \in 0..(width - 1) :
            LET i == row * width + col
                n == live_neighbour_count(pre.width, pre.height, pre.cells,
                                          row, col)
            IN  cells[i] = IF pre.cells[i] = ALIVE_CELL
                           THEN n \in {2, 3}
                           ELSE n = 3

\* A tick of a grid of at least 3 x 3 in which one cell dies, one is born
\* and one survives.
TickWitness ==
    /\ op = "tick"
    /\ width >= 3 /\ height >= 3
    /\ \E i \in DOMAIN cells : pre.cells[i] /\ ~cells[i]
    /\ \E i \in DOMAIN cells : ~pre.cells[i] /\ cells[i]
    /\ \E i \in DOMAIN cells : pre.cells[i] /\ cells[i]

\* The eight positions around (row, col), each taken modulo the dimensions,
\* and the number of them that hold an Alive cell.
NeighbourDeltas == ({-1, 0, 1} \X {-1, 0, 1}) \ {<<0, 0>>}

EightPositionsCount(w, h, cs, row, col) ==
    Cardinality({d \in NeighbourDeltas :
                    cs[((row + d[1]) % h) * w + ((col + d[2]) % w)]})

\* C2 as stated: on every grid with width >= 1 and height >= 1,
\* live_neighbour_count(row, col) is the number of Alive cells at the eight
\* positions ((row + dr) mod height, (col + dc) mod width).  (SpecGrid)
CountIsEightPositions ==
    op = "live_neighbour_count" =>
        ret = EightPositionsCount(width, height, cells, args[1], args[2])

\* C2 amended: the same on every grid with width >= 2 and height >= 2.
\* (SpecGrid)
CountIsEightPositionsFromTwo ==
    op = "live_neighbour_count" /\ width >= 2 /\ height >= 2 =>
        ret = EightPositionsCount(width, height, cells, args[1], args[2])

\* The count at (0, 0) of a grid whose only Alive cell is
\* (height-1, width-1), which is counted once.
CountWitness ==
    /\ op = "live_neighbour_count"
    /\ width >= 3 /\ height >= 3
    /\ args = <<0, 0>>
    /\ Alive(cells) = {(height - 1) * width + (width - 1)}
    /\ ret = 1

\* C11: on a Universe whose width or height is 0, tick() and render() end
\* without a panic and leave the empty buffer as it was.  (SpecZero)
ZeroDimensionSafe ==
    (width = 0 \/ height = 0) /\ op \in {"tick", "render"} =>
        /\ status = "ok"
        /\ cells = pre.cells

\* The string of height lines of width glyphs, one glyph per cell.
GridString(w, h, cs) ==
    [p \in 1..(h * (w + 1)) |->
        LET r == (p - 1) \div (w + 1)
            c == (p - 1) % (w + 1)
        IN  IF c = w THEN "\n"
            ELSE IF cs[r * w + c] = ALIVE_CELL THEN ALIVE_GLYPH
            ELSE DEAD_GLYPH]

\* C3: render() returns height lines, each of width glyphs and a newline,
\* the glyph of cell (r, c) at line r, position c.  (SpecGrid)
RenderIsGrid ==
    op = "render" => ret = GridString(width, height, cells)

\* C4: a 2x2 block seeded on an all-Dead grid of at least 4x4 is the buffer
\* after any number of ticks.  (SpecBlock)
BlockUnchanged == cells = seed

\* The block after the last tick of the scenario.
BlockWitness ==
    /\ op = "tick"
    /\ gen = MaxTicks
    /\ Cardinality(Alive(cells)) = 4
    /\ cells = seed

\* The buffer s of a w x h grid with every cell moved to
\* ((row + 1) mod h, (col + 1) mod w).
Shifted(w, h, s) ==
    [i \in DOMAIN s |->
        s[(((i \div w) - 1) % h) * w + (((i % w) - 1) % w)]]

\* C5: four ticks after a glider is seeded, the Alive cells are the seeded
\* ones, each moved to ((row + 1) mod height, (col + 1) mod width).
\* (SpecGlider)
GliderMovesDiagonally ==
    gen = 4 => cells = Shifted(width, height, seed)

\* A glider seeded across the corner: its cell at (height-1, width-1) is at
\* (0, 0) four ticks later.
GliderWitness ==
    /\ gen = 4
    /\ op = "tick"
    /\ seed[size - 1] /\ ~seed[0]
    /\ cells[0]
    /\ Cardinality(Alive(cells)) = 5
    /\ cells = Shifted(width, height, seed)

\* C6: in every state reached from new() the buffer has width * height
\* cells, which is also the size field.  (Spec)
LengthIsWidthTimesHeight ==
    /\ DOMAIN cells = 0..(width * height - 1)
    /\ size = width * height

\* A buffer of that length after clear(), with a cell drawn Alive since.
LengthWitness ==
    /\ op = "draw"
    /\ status = "ok"
    /\ AllDead(pre.cells)
    /\ Cardinality(Alive(cells)) = 1
    /\ Cardinality(DOMAIN cells) = width * height

\* A list of pairs that all name cells of the grid.
InRangeList(m) ==
    \A k \in 1..Len(m) :
        Len(m[k]) = 2 /\ m[k][1] < height /\ m[k][2] < width

Occurrences(m, p) == Cardinality({k \in 1..Len(m) : m[k] = p})

\* C7: after draw() of a list of in-range pairs, a cell differs from its
\* state before the call exactly when its coordinate occurs an odd number
\* of times in the list.  (SpecDraw)
DrawParity ==
    op = "draw" /\ InRangeList(args) =>
        \A row \in 0..(height - 1), col \in 0..(width - 1) :
            LET i == row * width + col
            IN  (cells[i] # pre.cells[i])
                    <=> (Occurrences(args, <<row, col>>) % 2 = 1)

\* The same coordinate toggled twice, of a cell that was Alive.
DrawWitness ==
    /\ op = "draw"
    /\ status = "ok"
    /\ Len(args) = 2
    /\ InRangeList(args)
    /\ args[1] = args[2]
    /\ pre.cells[args[1][1] * width + args[1][2]]
    /\ cells = pre.cells

\* C8: a draw() whose list holds a pair out of range, or an element that is
\* no pair, ends in an error outcome: no panic, no cell flipped.  (SpecDraw)
DrawRejectsBadInput ==
    op = "draw" /\ ~InRangeList(args) =>
        /\ status = "error"
        /\ cells = pre.cells

\* C9: after clear() every cell is Dead and the dimensions are those before
\* the call; a clear() of an all-Dead buffer leaves it as it was.  (Spec)
ClearAllDead ==
    op = "clear" =>
        /\ AllDead(cells)
        /\ DOMAIN cells = DOMAIN pre.cells
        /\ width = pre.width /\ height = pre.height
        /\ AllDead(pre.cells) => cells = pre.cells

\* clear() of a buffer with Alive cells.
ClearWitness ==
    /\ op = "clear"
    /\ Alive(pre.cells) # {}
    /\ AllDead(cells)

\* C10: after set_width(n) the width is n, after set_height(n) the height
\* is n, and in both cases the buffer has width * height cells, all Dead.
\* (SpecGrid)
SetDimensionResets ==
    op \in {"set_width", "set_height"} =>
        /\ op = "set_width" => width = args[1]
        /\ op = "set_height" => height = args[1]
        /\ DOMAIN cells = 0..(width * height - 1)
        /\ AllDead(cells)

\* C13: after set_cells() of in-range coordinates every named cell is
\* Alive, every other cell is as it was, and width and height are
\* unchanged.  (SpecSetCells)
SetCellsAdditive ==
    op = "set_cells" /\ InRangeList(args) =>
        /\ status = "ok"
        /\ width = pre.width /\ height = pre.height
        /\ \A row \in 0..(height - 1), col \in 0..(width - 1) :
              LET i == row * width + col
              IN  cells[i] = IF Occurrences(args, <<row, col>>) > 0
                             THEN ALIVE_CELL
                             ELSE pre.cells[i]

\* set_cells of two cells, one Dead before, with an Alive cell not named.
SetCellsWitness ==
    /\ op = "set_cells"
    /\ status = "ok"
    /\ Len(args) = 2 /\ args[1] # args[2]
    /\ InRangeList(args)
    /\ ~pre.cells[args[1][1] * width + args[1][2]]
    /\ \E i \in DOMAIN cells :
          /\ pre.cells[i] /\ cells[i]
          /\ \A k \in 1..2 : i # args[k][1] * width + args[k][2]

\* C14: new() yields width = 64, height = 64 and 4096 cells; new() and
\* reset() take one value of Math.random() per cell, in index order, and
\* cell i is Alive exactly when the i-th value is below 0.2.  (SpecNew)
SeedIsThreshold ==
    op \in {"new", "reset"} =>
        /\ op = "new" => /\ width = 64
                         /\ height = 64
                         /\ Cardinality(DOMAIN cells) = 4096
        /\ Len(args) = width * height
        /\ DOMAIN cells = 0..(width * height - 1)
        /\ \A i \in DOMAIN cells :
              (cells[i] = ALIVE_CELL) <=> (args[i + 1] < Threshold)

\* A reset() of the 64 x 64 Universe that left Alive and Dead cells.
SeedWitness ==
    /\ op = "reset"
    /\ width = 64 /\ height = 64
    /\ Len(args) = 4096
    /\ Alive(cells) # {}
    /\ Alive(cells) # DOMAIN cells

\* C15: while a tick() runs, one step per cell and then a commit step, the
\* buffer that is read and seen from outside keeps its value of before the
\* tick; the cells visited so far hold in next the rule's result computed
\* from that value and the others their old state; the buffer seen is only
\* ever the whole old or the whole new generation; and the committed
\* result is that of the row-major tick whatever the order of the visits.
\* (SpecTickSteps)
TickIsDoubleBuffered ==
    /\ status = "ticking" =>
          /\ cells = pre.cells
          /\ DOMAIN tick_next = DOMAIN cells
          /\ \A k \in DOMAIN tick_next :
                tick_next[k] =
                    IF k \in visited
                    THEN next_cell(pre.cells[k],
                                   live_neighbour_count(width, height,
                                       pre.cells, k \div width, k % width))
                    ELSE pre.cells[k]
    /\ op = "tick" =>
          cells = pre.cells \/ cells = tick(width, height, pre.cells)
    /\ op = "tick" /\ status = "ok" =>
          cells = tick(width, height, pre.cells)

\* A running tick that visited a cell before one of lower index, whose
\* next already differs from the buffer read.
TickStepsWitness ==
    /\ status = "ticking"
    /\ tick_next # cells
    /\ \E k \in visited :
          \E j \in (DOMAIN cells) \ visited : j < k

\* C16: on every grid with width >= 1 and height >= 1 the state of a cell
\* does not contribute to its own count: live_neighbour_count(row, col) is
\* the same on the buffer in which only cell (row, col) is flipped.
\* (SpecGrid)
CountIgnoresOwnState ==
    op = "live_neighbour_count" =>
        LET idx == args[1] * width + args[2]
            flipped == [cells EXCEPT ![idx] = toggle(@)]
        IN  ret = live_neighbour_count(width, height, flipped,
                                       args[1], args[2])

DimensionsFixed ==
    /\ width = NewWidth
    /\ height = NewHeight
    /\ size = NewWidth * NewHeight
    /\ op \in {"width", "height", "render", "get_cells"} =>
          /\ Snapshot = pre
          /\ status = "ok"

\* get_cells() on a Universe with Alive cells: the buffer is returned and is
\* still in place.
AccessorWitness ==
    /\ op = "get_cells"
    /\ Alive(cells) # {}
    /\ ret = cells
    /\ pre.cells = cells
    /\ width = NewWidth /\ height = NewHeight

====
